---- MODULE Spec2Model ----
(***************************************************************************)
(* Model of platform_cli/config.py: the Config object that layers          *)
(* compiled-in defaults, the persisted override store and suggestions,     *)
(* and the operations the command line drives on it.                       *)
(*                                                                         *)
(* Strings are sequences of one-character strings, so that the tests the   *)
(* code makes on names ('___' in name, ' ' in name, name.split('.')[0],    *)
(* '{}.enabled'.format(...)) and the store's name=value lines are computed *)
(* on the characters.                                                      *)
(***************************************************************************)
EXTENDS Integers, Sequences, FiniteSets, TLC

VARIABLES
  defaults,     \* Config.defaults: sequence of Default records
  suggestions,  \* Config.suggestions: sequence of Suggestion records
  docs,         \* Config.docs: sequence of Doc records
  file,         \* the override store file at config_path: [exists, lines]
  last,         \* the last operation called, its arguments and how it ended
  result,       \* what the last operation returned
  pc,           \* per process: position inside a store operation
  lock,         \* holder of the exclusive lock on config_path: a process or NoProc
  req,          \* per process: the store operation in progress
  buf           \* per process: the items read from the file under the lock

vars == <<defaults, suggestions, docs, file, last, result, pc, lock, req, buf>>

(***************************************************************************)
(* Bounds                                                                  *)
(***************************************************************************)
MaxStore == 2
MaxDocs == 3
MaxDefaults == 3
NumProcs == 2

(***************************************************************************)
(* Characters and strings                                                  *)
(***************************************************************************)
\* The characters used, in code point order (the order Python's sorted uses).
Alphabet ==
  <<" ", ".", "/", "=", "F", "T", "_", "a", "b", "d", "e", "h", "i", "l", "m",
    "n", "p", "q", "r", "s", "u", "w", "x", "y", "z", "{", "}">>

CharOrd(c) == CHOOSE i \in 1..Len(Alphabet) : Alphabet[i] = c

\* sub in s
Contains(s, sub) ==
  \E i \in 1..(Len(s) - Len(sub) + 1) : SubSeq(s, i, i + Len(sub) - 1) = sub

\* s.find(sub), 1-based; 0 when absent
Find(s, sub) ==
  IF Contains(s, sub)
  THEN CHOOSE i \in 1..(Len(s) - Len(sub) + 1) :
         /\ SubSeq(s, i, i + Len(sub) - 1) = sub
         /\ \A j \in 1..(i - 1) : SubSeq(s, j, j + Len(sub) - 1) # sub
  ELSE 0

\* s < t for strings
RECURSIVE StrLess(_, _)
StrLess(s, t) ==
  IF t = <<>> THEN FALSE
  ELSE IF s = <<>> THEN TRUE
  ELSE IF Head(s) # Head(t) THEN CharOrd(Head(s)) < CharOrd(Head(t))
  ELSE StrLess(Tail(s), Tail(t))

\* sorted(S) for a set of strings
RECURSIVE SortedStrings(_)
SortedStrings(S) ==
  IF S = {} THEN <<>>
  ELSE LET m == CHOOSE x \in S : \A y \in S \ {x} : StrLess(x, y)
       IN <<m>> \o SortedStrings(S \ {m})

Range(f) == {f[i] : i \in DOMAIN f}

EmptyMap == [n \in {} |-> <<>>]

MapPut(m, k, v) == [n \in DOMAIN m \cup {k} |-> IF n = k THEN v ELSE m[n]]

(***************************************************************************)
(* Names and values used by the callers of the model                       *)
(***************************************************************************)
N_host == <<"a", ".", "h">>
N_url == <<"a", ".", "u">>
N_main == <<"m", "a", "i", "n", ".", "p">>
N_wenabled == <<"w", ".", "e", "n", "a", "b", "l", "e", "d">>
N_zenabled == <<"z", ".", "e", "n", "a", "b", "l", "e", "d">>
N_space == <<"a", " ", "b">>
N_under == <<"a", "_", "_", "_", "b">>
N_eq == <<"a", "=", "b">>
N_a == <<"a">>

V_x == <<"x">>
V_y == <<"y">>
V_True == <<"T", "r", "u", "e">>
V_ref == <<"{", "{", "a", ".", "h", "}", "}">>
V_url == <<"{", "{", "a", ".", "h", "}", "}", "/">>
V_why == <<"w", "h", "y">>
V_doc == <<"d">>

Default(name, value) == [name |-> name, value |-> value]
Override(name, value) == [name |-> name, value |-> value]
Suggestion(name, value, why) == [name |-> name, value |-> value, why |-> why]
Doc(name, doc) == [name |-> name, doc |-> doc]

(***************************************************************************)
(* validate_and_map_by_name                                                *)
(***************************************************************************)
NoError == "none"
InvalidName == "invalid_name"
DuplicateName == "duplicate_name"

\* A faulty variant: the loop without the '___' test.
RECURSIVE ValidateFrom_NoUnderscoreCheck(_, _, _)
ValidateFrom_NoUnderscoreCheck(variables, i, vars_by_name) ==
  IF i > Len(variables) THEN [err |-> NoError, map |-> vars_by_name]
  ELSE LET var == variables[i] IN
    IF Contains(var.name, <<" ">>) THEN [err |-> InvalidName, map |-> EmptyMap]
    ELSE IF var.name \in DOMAIN vars_by_name THEN [err |-> DuplicateName, map |-> EmptyMap]
    ELSE ValidateFrom_NoUnderscoreCheck(variables, i + 1, MapPut(vars_by_name, var.name, var))

\* The loop of validate_and_map_by_name from entry i on, vars_by_name built so far.
RECURSIVE ValidateFrom(_, _, _)
ValidateFrom(variables, i, vars_by_name) ==
  IF i > Len(variables) THEN [err |-> NoError, map |-> vars_by_name]
  ELSE LET var == variables[i] IN
    IF Contains(var.name, <<"_", "_", "_">>) THEN [err |-> InvalidName, map |-> EmptyMap]
    ELSE IF Contains(var.name, <<" ">>) THEN [err |-> InvalidName, map |-> EmptyMap]
    ELSE IF var.name \in DOMAIN vars_by_name THEN [err |-> DuplicateName, map |-> EmptyMap]
    ELSE ValidateFrom(variables, i + 1, MapPut(vars_by_name, var.name, var))

validate_and_map_by_name(variables) == ValidateFrom(variables, 1, EmptyMap)

(***************************************************************************)
(* props: the store file, one name=value line per entry, sorted by name    *)
(***************************************************************************)
ItemLine(item) == item[1] \o <<"=">> \o item[2]

\* the name is everything before the first "="
ParseLine(line) ==
  LET i == Find(line, <<"=">>)
  IN IF i = 0 THEN <<line, <<>>>>
     ELSE <<SubSeq(line, 1, i - 1), SubSeq(line, i + 1, Len(line))>>

get_items(lines) == [i \in 1..Len(lines) |-> ParseLine(lines[i])]

\* stable insertion of an item into items sorted by name
RECURSIVE InsertItem(_, _)
InsertItem(sorted, item) ==
  IF sorted = <<>> THEN <<item>>
  ELSE IF StrLess(item[1], Head(sorted)[1]) THEN <<item>> \o sorted
  ELSE <<Head(sorted)>> \o InsertItem(Tail(sorted), item)

RECURSIVE SortItems(_)
SortItems(items) ==
  IF items = <<>> THEN <<>>
  ELSE InsertItem(SortItems(SubSeq(items, 1, Len(items) - 1)), items[Len(items)])

WriteItems(items) ==
  LET sorted == SortItems(items) IN [i \in 1..Len(sorted) |-> ItemLine(sorted[i])]

\* the items with key set to value: replaced where present, appended otherwise
SetItem(items, key, value) ==
  IF \E i \in 1..Len(items) : items[i][1] = key
  THEN [i \in 1..Len(items) |-> IF items[i][1] = key THEN <<key, value>> ELSE items[i]]
  ELSE Append(items, <<key, value>>)

DeleteItem(items, key) == SelectSeq(items, LAMBDA it : it[1] # key)

set_key(lines, key, value) == WriteItems(SetItem(get_items(lines), key, value))

delete_key(lines, key) == WriteItems(DeleteItem(get_items(lines), key))

(***************************************************************************)
(* template: {{name}} references between the values of one mapping         *)
(***************************************************************************)
Open == <<"{", "{">>
Close == <<"}", "}">>

HasRef(v) ==
  LET i == Find(v, Open)
  IN i > 0 /\ Contains(SubSeq(v, i + 2, Len(v)), Close)

\* the first reference of v: the text before it, the name, the text after it
FirstRef(v) ==
  LET i == Find(v, Open)
      rest == SubSeq(v, i + 2, Len(v))
      j == Find(rest, Close)
  IN [before |-> SubSeq(v, 1, i - 1),
      name |-> SubSeq(rest, 1, j - 1),
      after |-> SubSeq(rest, j + 2, Len(rest))]

RECURSIVE Refs(_)
Refs(v) ==
  IF ~HasRef(v) THEN {}
  ELSE LET r == FirstRef(v) IN {r.name} \cup Refs(r.after)

\* one substitution pass over v; a reference to an unknown name stays as written
RECURSIVE render(_, _)
render(v, values) ==
  IF ~HasRef(v) THEN v
  ELSE LET r == FirstRef(v)
       IN r.before
          \o (IF r.name \in DOMAIN values THEN values[r.name]
              ELSE Open \o r.name \o Close)
          \o render(r.after, values)

RECURSIVE Reach(_, _, _)
Reach(values, S, k) ==
  IF k = 0 THEN S
  ELSE Reach(values,
             S \cup UNION {Refs(values[m]) \cap DOMAIN values : m \in S},
             k - 1)

HasCycle(values) ==
  \E n \in DOMAIN values :
    n \in Reach(values, Refs(values[n]) \cap DOMAIN values, Cardinality(DOMAIN values))

RECURSIVE RenderPasses(_, _)
RenderPasses(values, k) ==
  IF k = 0 THEN values
  ELSE RenderPasses([n \in DOMAIN values |-> render(values[n], values)], k - 1)

TemplateCycle == "template_cycle"
UnknownReference == "unknown_reference"
Policies == {"literal", "error"}

render_values_in_template_map(values, pol) ==
  IF HasCycle(values) THEN [err |-> TemplateCycle, map |-> EmptyMap]
  ELSE IF pol = "error" /\ \E n \in DOMAIN values : ~(Refs(values[n]) \subseteq DOMAIN values)
  THEN [err |-> UnknownReference, map |-> EmptyMap]
  ELSE [err |-> NoError, map |-> RenderPasses(values, Cardinality(DOMAIN values))]

(***************************************************************************)
(* Config: the override store operations (one process, lock uncontended)   *)
(***************************************************************************)
NoFile == [exists |-> FALSE, lines |-> <<>>]

\* create_new=True: a missing file is created empty before it is read
Opened(f) == IF f.exists THEN f ELSE [exists |-> TRUE, lines |-> <<>>]

get_overrides(f) ==
  LET conf_items == get_items(Opened(f).lines)
  IN [i \in 1..Len(conf_items) |-> Override(conf_items[i][1], conf_items[i][2])]

\* A faulty variant: the delete leaves the key in the file.
delete_override_KeepsKey(f, key) == Opened(f)

delete_override(f, key) ==
  [exists |-> TRUE, lines |-> delete_key(Opened(f).lines, key)]

\* A faulty variant: the set adds an entry without replacing the one that is there.
set_override_Appends(f, key, value) ==
  [exists |-> TRUE,
   lines |-> WriteItems(Append(get_items(Opened(f).lines), <<key, value>>))]

set_override(f, key, value) ==
  [exists |-> TRUE, lines |-> set_key(Opened(f).lines, key, value)]

\* TRUE when exit_on_unknown_key ends the process with sys.exit(1)
exit_on_unknown_key(defs, key) ==
  LET default_names == [i \in 1..Len(defs) |-> defs[i].name]
  IN key \notin Range(default_names)

Enabled(service_name) == service_name \o <<".", "e", "n", "a", "b", "l", "e", "d">>

(***************************************************************************)
(* Config.get_active_values_and_metadata                                   *)
(***************************************************************************)
Failed(e, read) ==
  [err |-> e, read |-> read, active_values |-> EmptyMap,
   different_suggestions |-> EmptyMap, different_defaults |-> EmptyMap]

\* A faulty variant: the merge runs over the override names as well.
MergeActive_AllNames(defaults_by_name, overrides_by_name) ==
  [name \in DOMAIN defaults_by_name \cup DOMAIN overrides_by_name |->
     IF /\ name \in DOMAIN overrides_by_name
        /\ name \in DOMAIN defaults_by_name
             => overrides_by_name[name].value # defaults_by_name[name].value
     THEN overrides_by_name[name].value
     ELSE defaults_by_name[name].value]

\* A faulty variant: the merge takes the default's value whatever the override.
MergeActive_IgnoresOverrides(defaults_by_name, overrides_by_name) ==
  [name \in DOMAIN defaults_by_name |-> defaults_by_name[name].value]

\* lines 170-176: the merge of the overrides over the defaults
MergeActive(defaults_by_name, overrides_by_name) ==
  [name \in DOMAIN defaults_by_name |->
     IF /\ name \in DOMAIN overrides_by_name
        /\ overrides_by_name[name].value # defaults_by_name[name].value
     THEN overrides_by_name[name].value
     ELSE defaults_by_name[name].value]

\* A faulty variant: every overridden default counts as differing, equal values included.
MergeDifferent_AnyOverride(defaults_by_name, overrides_by_name) ==
  [name \in DOMAIN defaults_by_name \cap DOMAIN overrides_by_name |->
     defaults_by_name[name]]

MergeDifferent(defaults_by_name, overrides_by_name) ==
  LET differing == {name \in DOMAIN defaults_by_name :
                      /\ name \in DOMAIN overrides_by_name
                      /\ overrides_by_name[name].value # defaults_by_name[name].value}
  IN [name \in differing |-> defaults_by_name[name]]

\* lines 178-181
DifferentSuggestions(active_values, suggestions_by_name) ==
  LET differing == {name \in DOMAIN active_values :
                      /\ name \in DOMAIN suggestions_by_name
                      /\ suggestions_by_name[name].value # active_values[name]}
  IN [name \in differing |-> suggestions_by_name[name]]

\* A faulty variant: the overrides are read and validated before the defaults.
get_active_values_and_metadata_OverridesFirst(defs, f, suggs, pol) ==
  LET o == validate_and_map_by_name(get_overrides(f)) IN
  IF o.err # NoError THEN Failed(o.err, TRUE)
  ELSE LET d == validate_and_map_by_name(defs) IN
  IF d.err # NoError THEN Failed(d.err, TRUE)
  ELSE LET s == validate_and_map_by_name(suggs) IN
  IF s.err # NoError THEN Failed(s.err, TRUE)
  ELSE LET r == render_values_in_template_map(MergeActive(d.map, o.map), pol) IN
  IF r.err # NoError THEN Failed(r.err, TRUE)
  ELSE [err |-> NoError, read |-> TRUE, active_values |-> r.map,
        different_suggestions |-> DifferentSuggestions(r.map, s.map),
        different_defaults |-> MergeDifferent(d.map, o.map)]

\* read: whether the call got as far as get_overrides (which creates the file)
get_active_values_and_metadata(defs, f, suggs, pol) ==
  LET d == validate_and_map_by_name(defs) IN
  IF d.err # NoError THEN Failed(d.err, FALSE)
  ELSE LET o == validate_and_map_by_name(get_overrides(f)) IN
  IF o.err # NoError THEN Failed(o.err, TRUE)
  ELSE LET s == validate_and_map_by_name(suggs) IN
  IF s.err # NoError THEN Failed(s.err, TRUE)
  ELSE LET r == render_values_in_template_map(MergeActive(d.map, o.map), pol) IN
  IF r.err # NoError THEN Failed(r.err, TRUE)
  ELSE [err |-> NoError, read |-> TRUE, active_values |-> r.map,
        different_suggestions |-> DifferentSuggestions(r.map, s.map),
        different_defaults |-> MergeDifferent(d.map, o.map)]

(***************************************************************************)
(* Config.show_docs: the listing handed to the pager                       *)
(***************************************************************************)
ValueError == "ValueError"
KeyError == "KeyError"
Main == <<"m", "a", "i", "n">>

\* name.split('.')[0]
Category(name) ==
  LET i == Find(name, <<".">>)
  IN IF i = 0 THEN name ELSE SubSeq(name, 1, i - 1)

show_docs(defs, dcs) ==
  LET d == validate_and_map_by_name(defs) IN
  IF d.err # NoError THEN [err |-> d.err, output |-> <<>>]
  ELSE LET dn == validate_and_map_by_name(dcs) IN
  IF dn.err # NoError THEN [err |-> dn.err, output |-> <<>>]
  ELSE LET names_by_category ==
             [c \in {Category(n) : n \in DOMAIN dn.map} |->
                {n \in DOMAIN dn.map : Category(n) = c}]
           sorted == SortedStrings(DOMAIN names_by_category)
       IN IF Main \notin DOMAIN names_by_category
          THEN [err |-> ValueError, output |-> <<>>]   \* categories.remove('main')
          ELSE LET categories == <<Main>> \o SelectSeq(sorted, LAMBDA c : c # Main)
               IN IF \E n \in DOMAIN dn.map : n \notin DOMAIN d.map
                  THEN [err |-> KeyError, output |-> <<>>]   \* defaults_by_name[name]
                  ELSE [err |-> NoError,
                        output |-> [i \in 1..Len(categories) |->
                                      [category |-> categories[i],
                                       names |-> SortedStrings(names_by_category[categories[i]])]]]

(***************************************************************************)
(* The operations of one Config object, called one after another           *)
(***************************************************************************)
NoProc == 0
Procs == 1..NumProcs
NoReq == [op |-> "none", key |-> <<>>, value |-> <<>>]

NoResult ==
  [err |-> NoError, read |-> FALSE, active_values |-> EmptyMap,
   different_suggestions |-> EmptyMap, different_defaults |-> EmptyMap,
   overrides |-> <<>>, output |-> <<>>]

\* after: for a resolve, the call that preceded it
NoCall == [op |-> "none", key |-> <<>>]

Called(op, key, value, status) ==
  [op |-> op, key |-> key, value |-> value, status |-> status, before |-> file,
   after |-> IF op = "resolve" THEN [op |-> last.op, key |-> last.key] ELSE NoCall]

ConfigUnchanged == UNCHANGED <<defaults, suggestions, docs>>
ProcsUnchanged == UNCHANGED <<pc, lock, req, buf>>

\* the store is kept to MaxStore lines
Fits(f) == Len(f.lines) <= MaxStore

StoreSet(op, key, value) ==
  LET written == set_override(file, key, value)
  IN /\ Fits(written)
     /\ file' = written
     /\ last' = Called(op, key, value, "ok")
     /\ result' = NoResult

StoreDelete(op, key) ==
  /\ file' = delete_override(file, key)
  /\ last' = Called(op, key, <<>>, "ok")
  /\ result' = NoResult

Exit1(op, key, value) ==
  /\ file' = file
  /\ last' = Called(op, key, value, "exit1")
  /\ result' = NoResult

Enable(service_name) ==
  /\ StoreSet("enable", Enabled(service_name), V_True)
  /\ ConfigUnchanged /\ ProcsUnchanged

Disable(service_name) ==
  /\ StoreDelete("disable", Enabled(service_name))
  /\ ConfigUnchanged /\ ProcsUnchanged

SetVar(property_name, property_value) ==
  /\ IF exit_on_unknown_key(defaults, property_name)
     THEN Exit1("set_var", property_name, property_value)
     ELSE StoreSet("set_var", property_name, property_value)
  /\ ConfigUnchanged /\ ProcsUnchanged

DeleteVar(property_name) ==
  /\ IF exit_on_unknown_key(defaults, property_name)
     THEN Exit1("delete_var", property_name, <<>>)
     ELSE StoreDelete("delete_var", property_name)
  /\ ConfigUnchanged /\ ProcsUnchanged

SetOverride(key, value) ==
  /\ StoreSet("set_override", key, value)
  /\ ConfigUnchanged /\ ProcsUnchanged

DeleteOverride(key) ==
  /\ StoreDelete("delete_override", key)
  /\ ConfigUnchanged /\ ProcsUnchanged

GetOverrides ==
  /\ file' = Opened(file)
  /\ last' = Called("get_overrides", <<>>, <<>>, "ok")
  /\ result' = [NoResult EXCEPT !.read = TRUE, !.overrides = get_overrides(file)]
  /\ ConfigUnchanged /\ ProcsUnchanged

\* pol: the template engine's treatment of a reference to an unknown name, which
\* the source does not fix
Resolve(pol) ==
  LET r == get_active_values_and_metadata(defaults, file, suggestions, pol)
  IN /\ file' = IF r.read THEN Opened(file) ELSE file
     /\ last' = Called("resolve", <<>>, <<>>, IF r.err = NoError THEN "ok" ELSE "error")
     /\ result' = [NoResult EXCEPT !.err = r.err, !.read = r.read,
                                   !.active_values = r.active_values,
                                   !.different_suggestions = r.different_suggestions,
                                   !.different_defaults = r.different_defaults]
     /\ ConfigUnchanged /\ ProcsUnchanged

ShowDocs ==
  LET r == show_docs(defaults, docs)
  IN /\ file' = file
     /\ last' = Called("show_docs", <<>>, <<>>, IF r.err = NoError THEN "ok" ELSE "error")
     /\ result' = [NoResult EXCEPT !.err = r.err, !.output = r.output]
     /\ ConfigUnchanged /\ ProcsUnchanged

(***************************************************************************)
(* Initial states shared by the specifications                             *)
(***************************************************************************)
InitProcs ==
  /\ pc = [p \in Procs |-> "idle"]
  /\ lock = NoProc
  /\ req = [p \in Procs |-> NoReq]
  /\ buf = [p \in Procs |-> <<>>]

InitCalls ==
  /\ file = NoFile
  /\ last = [op |-> "init", key |-> <<>>, value |-> <<>>, status |-> "ok",
             before |-> NoFile, after |-> NoCall]
  /\ result = NoResult

(***************************************************************************)
(* Spec: a well-formed Config and the calls the command line makes on it   *)
(***************************************************************************)
Configs ==
  { [defaults |-> <<Default(N_main, V_x), Default(N_host, V_x),
                    Default(N_url, V_url), Default(N_wenabled, V_True)>>,
     suggestions |-> <<Suggestion(N_host, V_y, V_why)>>,
     docs |-> <<Doc(N_main, V_doc), Doc(N_host, V_doc)>>],
    [defaults |-> <<Default(N_url, V_url), Default(N_zenabled, V_x)>>,
     suggestions |-> <<Suggestion(N_url, V_x, V_why), Suggestion(N_wenabled, V_x, V_why)>>,
     docs |-> <<Doc(N_url, V_doc)>>],
    [defaults |-> <<Default(N_host, V_y), Default(N_a, V_ref)>>,
     suggestions |-> <<>>,
     docs |-> <<>>] }

Keys == {N_host, N_url, N_a}
Values == {V_x, V_y, V_ref}
Services == {<<"w">>, <<"z">>}

Init ==
  /\ \E c \in Configs :
       /\ defaults = c.defaults
       /\ suggestions = c.suggestions
       /\ docs = c.docs
  /\ InitCalls
  /\ InitProcs

Next ==
  \/ \E s \in Services : Enable(s)
  \/ \E s \in Services : Disable(s)
  \/ \E k \in Keys, v \in Values : SetVar(k, v)
  \/ \E k \in Keys : DeleteVar(k)
  \/ \E k \in Keys, v \in Values : SetOverride(k, v)
  \/ \E k \in Keys : DeleteOverride(k)
  \/ GetOverrides
  \/ \E pol \in Policies : Resolve(pol)
  \/ ShowDocs

Spec == Init /\ [][Next]_vars

(***************************************************************************)
(* SpecStore: the store operations, on names with and without "="          *)
(***************************************************************************)
StoreKeys == {N_host, N_eq, N_a}
StoreValues == {V_x, V_y}

NextStore ==
  \/ \E k \in StoreKeys, v \in StoreValues : SetOverride(k, v)
  \/ \E k \in StoreKeys : DeleteOverride(k)
  \/ GetOverrides

SpecStore == Init /\ [][NextStore]_vars

(***************************************************************************)
(* SpecValidate: Configs whose collections hold ill-formed or repeated     *)
(* names, and a store that holds ill-formed names                          *)
(***************************************************************************)
DefaultPool == {Default(N_host, V_x), Default(N_host, V_y), Default(N_space, V_x)}
SuggestionChoices == {<<>>, <<Suggestion(N_host, V_y, V_why), Suggestion(N_space, V_x, V_why)>>}
DocChoices == {<<>>, <<Doc(N_under, V_doc)>>}
BadKeys == {N_host, N_under}

InitValidate ==
  /\ \E n \in 1..MaxDefaults : defaults \in [1..n -> DefaultPool]
  /\ suggestions \in SuggestionChoices
  /\ docs \in DocChoices
  /\ InitCalls
  /\ InitProcs

NextValidate ==
  \/ \E k \in BadKeys : SetOverride(k, V_x)
  \/ \E k \in BadKeys : DeleteOverride(k)
  \/ \E pol \in Policies : Resolve(pol)
  \/ ShowDocs

SpecValidate == InitValidate /\ [][NextValidate]_vars

(***************************************************************************)
(* SpecDocs: show_docs over the doc collections of up to MaxDocs entries   *)
(***************************************************************************)
N_mainq == <<"m", "a", "i", "n", ".", "q">>
DocDefaults ==
  <<Default(N_main, V_x), Default(N_mainq, V_x), Default(N_host, V_x),
    Default(N_wenabled, V_True), Default(N_a, V_x)>>
DocNames == {N_main, N_mainq, N_host, N_wenabled, N_a, N_url}

InitDocs ==
  /\ defaults = DocDefaults
  /\ suggestions = <<>>
  /\ \E n \in 0..MaxDocs : docs \in [1..n -> {Doc(name, V_doc) : name \in DocNames}]
  /\ InitCalls
  /\ InitProcs

NextDocs == ShowDocs

SpecDocs == InitDocs /\ [][NextDocs]_vars

(***************************************************************************)
(* SpecConc: several processes in the store operations of one config_path. *)
(* Each operation is                                                       *)
(*   with ProtectedFilePath(config_path): props.<operation>(config_path)   *)
(* entered by taking the exclusive lock and left, on every path, by        *)
(* releasing it; props reads the file and, for a set or delete, replaces   *)
(* it with the rewritten items.                                            *)
(***************************************************************************)
ConcKeys == {N_host, N_url}
ConcValue == V_x
Requests ==
  {[op |-> "get_overrides", key |-> <<>>, value |-> <<>>]}
    \cup {[op |-> "delete_override", key |-> k, value |-> <<>>] : k \in ConcKeys}
    \cup {[op |-> "set_override", key |-> k, value |-> ConcValue] : k \in ConcKeys}

ConcUnchanged == UNCHANGED <<defaults, suggestions, docs, result>>

Exited(r, status) ==
  [op |-> r.op, key |-> r.key, value |-> r.value, status |-> status,
   before |-> NoFile, after |-> NoCall]

\* a process calls get_overrides, delete_override or set_override
Call(p, r) ==
  /\ pc[p] = "idle"
  /\ pc' = [pc EXCEPT ![p] = "enter"]
  /\ req' = [req EXCEPT ![p] = r]
  /\ UNCHANGED <<lock, buf, file, last>>
  /\ ConcUnchanged

\* ProtectedFilePath.__enter__: blocks until the lock is free, then holds it
Acquire(p) ==
  /\ pc[p] = "enter"
  /\ lock = NoProc
  /\ lock' = p
  /\ pc' = [pc EXCEPT ![p] = "locked"]
  /\ UNCHANGED <<req, buf, file, last>>
  /\ ConcUnchanged

\* A faulty variant: props is called outside the with block, without the lock.
Read_OutsideLock(p) ==
  /\ pc[p] = "enter"
  /\ file' = Opened(file)
  /\ buf' = [buf EXCEPT ![p] = get_items(Opened(file).lines)]
  /\ pc' = [pc EXCEPT ![p] = IF req[p].op = "get_overrides" THEN "done" ELSE "modify"]
  /\ UNCHANGED <<lock, req, last>>
  /\ ConcUnchanged

\* the with body: props reads the file, creating it when missing
Read(p) ==
  /\ pc[p] = "locked"
  /\ file' = Opened(file)
  /\ buf' = [buf EXCEPT ![p] = get_items(Opened(file).lines)]
  /\ pc' = [pc EXCEPT ![p] = IF req[p].op = "get_overrides" THEN "done" ELSE "modify"]
  /\ UNCHANGED <<lock, req, last>>
  /\ ConcUnchanged

\* the with body: props replaces the file with the rewritten items
Write(p) ==
  /\ pc[p] = "modify"
  /\ file' = [exists |-> TRUE,
              lines |-> WriteItems(IF req[p].op = "set_override"
                                   THEN SetItem(buf[p], req[p].key, req[p].value)
                                   ELSE DeleteItem(buf[p], req[p].key))]
  /\ pc' = [pc EXCEPT ![p] = "done"]
  /\ UNCHANGED <<lock, req, buf, last>>
  /\ ConcUnchanged

\* the with body raises (the file cannot be read or written); the file is as it was
Raise(p) ==
  /\ pc[p] \in {"locked", "modify"}
  /\ pc' = [pc EXCEPT ![p] = "raised"]
  /\ UNCHANGED <<lock, req, buf, file, last>>
  /\ ConcUnchanged

\* ProtectedFilePath.__exit__: leaves the with block, on return and on exception
Release(p) ==
  /\ pc[p] \in {"done", "raised"}
  /\ lock' = IF lock = p THEN NoProc ELSE lock
  /\ pc' = [pc EXCEPT ![p] = "idle"]
  /\ last' = Exited(req[p], IF pc[p] = "done" THEN "ok" ELSE "error")
  /\ req' = [req EXCEPT ![p] = NoReq]
  /\ buf' = [buf EXCEPT ![p] = <<>>]
  /\ UNCHANGED file
  /\ ConcUnchanged

InitConc ==
  /\ defaults = <<Default(N_host, V_x), Default(N_url, V_url)>>
  /\ suggestions = <<>>
  /\ docs = <<>>
  /\ InitCalls
  /\ InitProcs

NextConc ==
  \/ \E p \in Procs, r \in Requests : Call(p, r)
  \/ \E p \in Procs : Acquire(p)
  \/ \E p \in Procs : Read(p)
  \/ \E p \in Procs : Write(p)
  \/ \E p \in Procs : Raise(p)
  \/ \E p \in Procs : Release(p)

SpecConc == InitConc /\ [][NextConc]_vars

(***************************************************************************)
(* What the claims speak of                                                *)
(***************************************************************************)
DefaultNames == {defaults[i].name : i \in 1..Len(defaults)}
DefaultOf(n) == defaults[CHOOSE i \in 1..Len(defaults) : defaults[i].name = n]

StoreNames(f) == {get_overrides(f)[i].name : i \in 1..Len(get_overrides(f))}
StoreValue(f, n) ==
  get_overrides(f)[CHOOSE i \in 1..Len(get_overrides(f)) : get_overrides(f)[i].name = n].value
EntriesNamed(f, n) == SelectSeq(get_overrides(f), LAMBDA o : o.name = n)
EntriesNotNamed(f, n) == {o \in Range(get_overrides(f)) : o.name # n}
NoDuplicates(f) == \A n \in StoreNames(f) : Len(EntriesNamed(f, n)) = 1

\* the store holds an override for default n whose value differs from the default's
Overridden(n) == n \in StoreNames(file) /\ StoreValue(file, n) # DefaultOf(n).value

Resolved == last.op = "resolve" /\ result.err = NoError
WasSet == last.op \in {"set_override", "set_var", "enable"} /\ last.status = "ok"

\* C1: the active mapping of a resolve has exactly the default names as its keys;
\* a name held only by the store is no key of it.
C1_ActiveKeysAreDefaultNames ==
  Resolved => DOMAIN result.active_values = DefaultNames

C1_Witness ==
  /\ Resolved
  /\ \E n \in StoreNames(file) : n \notin DefaultNames
  /\ \E n \in StoreNames(file) : n \in DefaultNames

\* C2 as claimed: active[n] is the override's value when it differs from the
\* default's, and the default's value when the store holds no override for n,
\* template references in the value included.
C2_ActiveIsRawValue ==
  Resolved =>
    \A n \in DefaultNames :
      /\ Overridden(n) => result.active_values[n] = StoreValue(file, n)
      /\ n \notin StoreNames(file) => result.active_values[n] = DefaultOf(n).value

\* C2 amended: active[n] is that value with its template references rendered:
\* each reference to a default name replaced by that name's active value, and
\* the value itself when it holds no reference.
RenderedFrom(n, v) ==
  /\ Refs(v) \subseteq DefaultNames =>
       result.active_values[n] = render(v, result.active_values)
  /\ ~HasRef(v) => result.active_values[n] = v

C2_ActiveIsRenderedValue ==
  Resolved =>
    \A n \in DefaultNames :
      /\ Overridden(n) => RenderedFrom(n, StoreValue(file, n))
      /\ n \notin StoreNames(file) => RenderedFrom(n, DefaultOf(n).value)

C2_Witness ==
  /\ Resolved
  /\ \E n \in DefaultNames :
       /\ Overridden(n)
       /\ HasRef(StoreValue(file, n))
       /\ result.active_values[n] # StoreValue(file, n)
  /\ \E n \in DefaultNames : Overridden(n) /\ ~HasRef(StoreValue(file, n))

\* C3: the keys of differingDefaults are exactly the default names whose override
\* differs from the default, each mapped to its Default record.
C3_DifferingDefaults ==
  Resolved =>
    /\ DOMAIN result.different_defaults = {n \in DefaultNames : Overridden(n)}
    /\ \A n \in DOMAIN result.different_defaults :
         result.different_defaults[n] = DefaultOf(n)

C3_Witness ==
  /\ Resolved
  /\ \E n \in DefaultNames : Overridden(n)
  /\ \E n \in DefaultNames : n \in StoreNames(file) /\ ~Overridden(n)
  /\ \E n \in DefaultNames : n \notin StoreNames(file)

AfterDelete ==
  /\ Resolved
  /\ last.after.op = "delete_override"
  /\ last.after.key \in DefaultNames

\* C4 as claimed: a resolve right after delete_override(n) gives active[n] the
\* default value of n and leaves n out of differingDefaults.
C4_DeleteRevertsToDefaultValue ==
  AfterDelete =>
    /\ result.active_values[last.after.key] = DefaultOf(last.after.key).value
    /\ last.after.key \notin DOMAIN result.different_defaults

\* C4 amended: active[n] is the default value of n with its template references
\* rendered (the default value itself when it holds none), whenever the resolve
\* returns a result.
C4_DeleteRevertsToRenderedDefault ==
  AfterDelete =>
    /\ RenderedFrom(last.after.key, DefaultOf(last.after.key).value)
    /\ last.after.key \notin DOMAIN result.different_defaults
    /\ last.after.key \notin StoreNames(file)

C4_Witness ==
  /\ AfterDelete
  /\ ~HasRef(DefaultOf(last.after.key).value)
  /\ StoreNames(file) # {}

SetRoundTrip ==
  /\ Len(EntriesNamed(file, last.key)) = 1
  /\ EntriesNamed(file, last.key)[1].value = last.value
  /\ EntriesNotNamed(file, last.key) = EntriesNotNamed(last.before, last.key)
  /\ Len(get_overrides(file)) =
       Len(get_overrides(last.before))
         + (IF last.key \in StoreNames(last.before) THEN 0 ELSE 1)

\* C5 as claimed: after set_override(n, v), for every n and v, the store holds
\* exactly one entry named n, its value is v, the other entries are unchanged and
\* the count grew by one exactly when n was absent.
C5_SetRoundTrips == WasSet => SetRoundTrip

\* C5 amended: the same for every name n that holds no "=" and every store in
\* which no two entries share a name.
C5_SetRoundTripsPlainName ==
  WasSet /\ ~Contains(last.key, <<"=">>) /\ NoDuplicates(last.before) => SetRoundTrip

C5_Witness ==
  /\ WasSet
  /\ ~Contains(last.key, <<"=">>)
  /\ NoDuplicates(last.before)
  /\ last.key \in StoreNames(last.before)
  /\ StoreValue(last.before, last.key) # last.value
  /\ Len(get_overrides(last.before)) >= 2

\* C6: set_var, delete_var, enable and disable each fail with exit status 1 and
\* leave the store unchanged when the key they would write or remove is no
\* default name.
C6_GuardBeforeEveryWrite ==
  last.op \in {"set_var", "delete_var", "enable", "disable"} /\ last.key \notin DefaultNames
    => last.status = "exit1" /\ file = last.before

\* C6 (what the guard does achieve): set_var and delete_var on a name that is no
\* default exit with status 1 and leave the store as it was.
GuardedCallsExit ==
  last.op \in {"set_var", "delete_var"} /\ last.key \notin DefaultNames
    => last.status = "exit1" /\ file = last.before

IllFormed(name) == Contains(name, <<" ">>) \/ Contains(name, <<"_", "_", "_">>)
AnyIllFormed(variables) == \E i \in 1..Len(variables) : IllFormed(variables[i].name)

RaisedNothing ==
  /\ result.err # NoError
  /\ last.status = "error"
  /\ result.active_values = EmptyMap
  /\ result.different_defaults = EmptyMap
  /\ result.different_suggestions = EmptyMap

\* C7 as claimed: resolve raises and returns no mapping whenever a default, an
\* override held in the store, a suggestion or a doc has a name with a space or "___".
C7_ResolveRejectsAnyIllFormedName ==
  /\ last.op = "resolve"
  /\ \/ AnyIllFormed(defaults)
     \/ AnyIllFormed(get_overrides(last.before))
     \/ AnyIllFormed(suggestions)
     \/ AnyIllFormed(docs)
  => RaisedNothing

\* C7 amended: resolve raises and returns no mapping whenever a default, an
\* override held in the store or a suggestion has such a name; a doc with such a
\* name makes show_docs raise, and resolve does not look at the docs.
C7_IllFormedNameRejectedWhereValidated ==
  /\ /\ last.op = "resolve"
     /\ \/ AnyIllFormed(defaults)
        \/ AnyIllFormed(get_overrides(last.before))
        \/ AnyIllFormed(suggestions)
     => RaisedNothing
  /\ /\ last.op = "show_docs"
     /\ AnyIllFormed(docs)
     => result.err # NoError /\ last.status = "error" /\ result.output = <<>>

C7_Witness ==
  /\ last.op = "resolve"
  /\ ~AnyIllFormed(defaults)
  /\ defaults # <<>>
  /\ validate_and_map_by_name(defaults).err = NoError
  /\ AnyIllFormed(get_overrides(last.before))
  /\ ~AnyIllFormed(suggestions)
  /\ result.err = InvalidName

\* the index of the first default whose name repeats an earlier one; 0 when none
FirstRepeat(variables) ==
  LET repeats == {j \in 1..Len(variables) :
                    \E i \in 1..(j - 1) : variables[i].name = variables[j].name}
  IN IF repeats = {} THEN 0
     ELSE CHOOSE j \in repeats : \A k \in repeats : j <= k

ResolveOfRepeatedDefaults == last.op = "resolve" /\ FirstRepeat(defaults) # 0

RaisedBeforeStore ==
  /\ RaisedNothing
  /\ ~result.read
  /\ file = last.before

\* C10 as claimed: with two defaults of one name, resolve fails with the
\* duplicate-name error, before the store is read or created, returns no mapping
\* and leaves the store unchanged.
C10_DuplicateDefaultsRaiseDuplicateError ==
  ResolveOfRepeatedDefaults => result.err = DuplicateName /\ RaisedBeforeStore

\* C10 amended: resolve fails before the store is read or created, with the
\* duplicate-name error unless a default at or before the first repeated one has
\* a name with a space or "___", and then with the invalid-name error.
C10_DuplicateDefaultsRaiseBeforeStore ==
  ResolveOfRepeatedDefaults =>
    /\ RaisedBeforeStore
    /\ result.err =
         IF \E i \in 1..FirstRepeat(defaults) : IllFormed(defaults[i].name)
         THEN InvalidName ELSE DuplicateName

C10_Witness ==
  /\ ResolveOfRepeatedDefaults
  /\ result.err = DuplicateName
  /\ ~file.exists
  /\ AnyIllFormed(defaults)

WellFormedDocs ==
  /\ validate_and_map_by_name(defaults).err = NoError
  /\ validate_and_map_by_name(docs).err = NoError
  /\ \A i \in 1..Len(docs) : docs[i].name \in DefaultNames

DocCategories == {Category(docs[i].name) : i \in 1..Len(docs)}

ListedCategories == [i \in 1..Len(result.output) |-> result.output[i].category]

\* the listing: every category of the docs once, "main" first, the other
\* categories in alphabetical order, each with its names sorted
MainFirstListing ==
  /\ result.err = NoError
  /\ Range(ListedCategories) \ {Main} = DocCategories \ {Main}
  /\ Main \in DocCategories => Main \in Range(ListedCategories)
  /\ \A i \in 1..Len(ListedCategories) : ListedCategories[i] = Main => i = 1
  /\ \A i, j \in 1..Len(ListedCategories) :
       i < j /\ ListedCategories[i] # Main => StrLess(ListedCategories[i], ListedCategories[j])
  /\ \A i \in 1..Len(result.output) :
       /\ Range(result.output[i].names) =
            {docs[j].name : j \in {k \in 1..Len(docs) :
                                     Category(docs[k].name) = result.output[i].category}}
       /\ \A a \in 1..(Len(result.output[i].names) - 1) :
            StrLess(result.output[i].names[a], result.output[i].names[a + 1])

\* C9: for every well-formed doc collection, one with no name in the "main"
\* category included, show_docs lists the categories with "main" first and the
\* others in alphabetical order, each category's names sorted.
C9_MainFirstForEveryDocs ==
  last.op = "show_docs" /\ WellFormedDocs => MainFirstListing

\* C9 (what the code does achieve): the same when some doc is in the "main" category.
ListingWhenMainPresent ==
  last.op = "show_docs" /\ WellFormedDocs /\ Main \in DocCategories => MainFirstListing

\* the positions of a process inside the with block of a store operation
Inside(p) == pc[p] \in {"locked", "modify", "done", "raised"}

\* C8: the lock is held by exactly the process inside a store operation, at most
\* one process is inside, the file a set or delete rewrites is the file it read,
\* and the lock is free once every operation has exited, also after a failure.
C8_LockSerializesStore ==
  /\ lock \in Procs \cup {NoProc}
  /\ \A p \in Procs : Inside(p) <=> lock = p
  /\ \A p, q \in Procs : Inside(p) /\ Inside(q) => p = q
  /\ \A p \in Procs :
       pc[p] = "modify" => file.exists /\ buf[p] = get_items(file.lines)
  /\ (\A p \in Procs : pc[p] \in {"idle", "enter"}) => lock = NoProc

C8_Witness ==
  /\ last.status = "error"
  /\ lock \in Procs
  /\ pc[lock] = "modify"
  /\ \E q \in Procs : q # lock /\ pc[q] = "enter" /\ req[q].op = "set_override"
  /\ file.lines # <<>>

====
